---- MODULE Spec2Model ----
(***************************************************************************)
(* Model of ds-help-utils:                                                 *)
(*   - feature_selection/_corr_removal.py : HighCorrRemoval (fit,          *)
(*     transform), checked under Spec;                                     *)
(*   - utils/validation.py and metrics/_ranking.py : the five ranking      *)
(*     metrics and their two helpers, checked under SpecMetrics.           *)
(* Floats that the code only compares are kept in hundredths (0.95 is 95); *)
(* a float that may be NaN is a record [nan, v].  Array and matrix indices *)
(* are 0-based as in the source; Python lists are TLA+ sequences.          *)
(***************************************************************************)
EXTENDS Integers, Sequences, FiniteSets, TLC

VARIABLES self, data, X, result, args, ret

vars == <<self, data, X, result, args, ret>>

(***************************************************************************)
(* Bounds                                                                  *)
(***************************************************************************)
\* largest number of columns of a fitted feature matrix
MaxCols == 4

\* largest number of column pairs of a fitted matrix that are not uncorrelated
MaxStrong == 2

\* largest length of a label / score array
MaxLen == 2

(***************************************************************************)
(* Floats, NaN                                                             *)
(***************************************************************************)
Float(v) == [nan |-> FALSE, v |-> v]

NaN == [nan |-> TRUE, v |-> 0]

isnan(f) == f.nan

abs_missing(f) == f

\* abs(NaN) is NaN
abs(f) == IF f.nan THEN f ELSE Float(IF f.v < 0 THEN -f.v ELSE f.v)

ge(f, t) == ~f.nan /\ f.v >= t

\* f > t; every comparison with NaN is False
gt(f, t) == ~f.nan /\ f.v > t

(***************************************************************************)
(* Lists and two-dimensional arrays                                        *)
(***************************************************************************)
\* a function on 1..n as an explicit list
AsList(f) == f \o <<>>

\* np.arange(n), as the list of its elements
arange(n) == AsList([k \in 1..n |-> k - 1])

\* element [i, j] of a two-dimensional array kept as the list of its rows
At(m, i, j) == m[i + 1][j + 1]

\* len(m): the number of rows
MatLen(m) == Len(m)

\* x in list
InList(x, list) == \E k \in 1..Len(list) : list[k] = x

Reverse(s) == AsList([k \in 1..Len(s) |-> s[Len(s) + 1 - k]])

(***************************************************************************)
(* Feature matrices                                                        *)
(***************************************************************************)
FeatureNames == <<"feature_0", "feature_1", "feature_2", "feature_3", "feature_4", "feature_5">>

\* off-diagonal correlations (hundredths) between two non-constant columns
CorrValues == {-95, 0, 95}

\* corr_threshold values (hundredths) an instance is constructed with
Thresholds == {90, 95}

Methods == {"pearson", "callable"}

UpperPairs(S) == {p \in S \X S : p[1] < p[2]}

\* The correlation matrix of a frame of n columns whose columns in const are
\* constant: a constant column has an undefined correlation with every
\* column, itself included; elsewhere the matrix is symmetric with unit
\* diagonal.
CorrMatrix(n, const, f) ==
    AsList([r \in 1..n |-> AsList([c \in 1..n |->
        LET i == r - 1
            j == c - 1
        IN  IF i \in const \/ j \in const THEN NaN
            ELSE IF i = j THEN Float(100)
            ELSE IF i < j THEN Float(f[<<i, j>>]) ELSE Float(f[<<j, i>>])])])

\* number of column pairs of a correlation assignment that are correlated
Strong(f) == Cardinality({p \in DOMAIN f : f[p] # 0})

\* the values held by the columns of a frame: one token per column
DataOf(tag, columns) == AsList([k \in 1..Len(columns) |-> <<tag, columns[k]>>])

FramesOf(n) ==
    UNION {{[columns |-> SubSeq(FeatureNames, 1, n),
             corr |-> CorrMatrix(n, const, f),
             data |-> DataOf("a", SubSeq(FeatureNames, 1, n))] :
               f \in {g \in [UpperPairs((0..(n - 1)) \ const) -> CorrValues] :
                         Strong(g) <= MaxStrong}} :
           const \in SUBSET (0..(n - 1))}

\* the feature matrices a caller may hold
Frames == UNION {FramesOf(n) : n \in 1..MaxCols}

\* the same observations with the columns in reverse order
Reversed(Xf) ==
    [columns |-> Reverse(Xf.columns),
     corr |-> Reverse(AsList([r \in 1..Len(Xf.corr) |-> Reverse(Xf.corr[r])])),
     data |-> DataOf("b", Reverse(Xf.columns))]

\* the same observations without the first column
DropFirst(Xf) ==
    [columns |-> Tail(Xf.columns),
     corr |-> AsList([r \in 1..(Len(Xf.corr) - 1) |-> Tail(Xf.corr[r + 1])]),
     data |-> DataOf("c", Tail(Xf.columns))]

\* the matrices a caller fits: the matrix it holds, and that matrix with its
\* columns reversed
FitViews(Xf) == {Xf, Reversed(Xf)}

\* the matrices a caller transforms: those it fits, and the matrix it holds
\* less its first column
Views(Xf) ==
    FitViews(Xf) \cup (IF Len(Xf.columns) >= 2 THEN {DropFirst(Xf)} ELSE {})

\* X.corr(method=...): with a callable method the diagonal is 1 whatever the
\* data, so a frame with an undefined diagonal cannot come from a callable.
CorrDefined(Xf, method) ==
    method = "callable" =>
        \A i \in 0..(MatLen(Xf.corr) - 1) : ~isnan(At(Xf.corr, i, i))

DataFrame_corr(Xf, method) == Xf.corr

(***************************************************************************)
(* HighCorrRemoval.fit                                                     *)
(***************************************************************************)
\* np.triu(corr.abs() > corr_threshold, k=1)
triu_gt(corr, t) ==
    AsList([r \in 1..Len(corr) |-> AsList([c \in 1..Len(corr[r]) |->
        r + 1 <= c /\ gt(abs(corr[r][c]), t)])])

\* np.meshgrid(xs, ys), default indexing "xy": both grids have len(ys) rows
\* and len(xs) columns; the first repeats xs along every row, the second
\* repeats ys down every column
meshgrid_ij(xs, ys) ==
    <<AsList([r \in 1..Len(ys) |-> AsList([c \in 1..Len(xs) |-> ys[r]])]),
      AsList([r \in 1..Len(ys) |-> AsList([c \in 1..Len(xs) |-> xs[c]])])>>

meshgrid(xs, ys) ==
    <<AsList([r \in 1..Len(ys) |-> AsList([c \in 1..Len(xs) |-> xs[c]])]),
      AsList([r \in 1..Len(ys) |-> AsList([c \in 1..Len(xs) |-> ys[r]])])>>

\* the elements of a two-dimensional array in row-major order
Ravel(m) ==
    AsList([k \in 1..(Len(m) * Len(m)) |-> m[((k - 1) \div Len(m)) + 1][((k - 1) % Len(m)) + 1]])

\* the elements of a list at the given positions
Pick(elems, idxs) == AsList([k \in 1..Len(idxs) |-> elems[idxs[k] + 1]])

Masked(elems, mask) == Pick(elems, SelectSeq(arange(Len(mask)), LAMBDA i : mask[i + 1]))

\* grid[sl]: boolean-mask indexing, the elements under True in row-major order
BoolIndex(grid, sl) == Masked(Ravel(grid), Ravel(sl))

\* for x, y in zip(grid_x[sl], grid_y[sl]): if x not in removed: removed.append(y)
RECURSIVE RemovalLoop(_, _, _, _)
RemovalLoop(xs, ys, k, removed) ==
    IF k > Len(xs) \/ k > Len(ys) THEN removed
    ELSE RemovalLoop(xs, ys, k + 1,
                     IF ~InList(xs[k], removed) THEN Append(removed, ys[k]) ELSE removed)

\* np.arange(len(corr))[np.isnan(np.diagonal(corr))]
ConstColumnsNone(corr) == <<>>

ConstColumns(corr) ==
    SelectSeq(arange(MatLen(corr)), LAMBDA i : isnan(At(corr, i, i)))

\* the loop over the masked grids, then removed += [*const]
RemovedOf(corr, sl, grid) ==
    RemovalLoop(BoolIndex(grid[1], sl), BoolIndex(grid[2], sl), 1, <<>>)
        \o ConstColumns(corr)

Removed(corr, t) ==
    RemovedOf(corr, triu_gt(corr, t), meshgrid(arange(MatLen(corr)), arange(MatLen(corr))))

\* [feature for (idx, feature) in enumerate(X.columns) if idx not in removed]
KeepColumns(columns, removed) ==
    Pick(columns, SelectSeq(arange(Len(columns)), LAMBDA i : ~InList(i, removed)))

\* hasattr(obj, "selected_features_")
Fitted(obj) == "selected_features_" \in DOMAIN obj

SetAttr(obj, name, value) ==
    [a \in DOMAIN obj \cup {name} |-> IF a = name THEN value ELSE obj[a]]

fit_merge(obj, Xf) ==
    LET kept == KeepColumns(Xf.columns, Removed(DataFrame_corr(Xf, obj.method), obj.corr_threshold))
    IN  SetAttr(obj, "selected_features_",
                IF Fitted(obj)
                THEN SelectSeq(kept, LAMBDA c : InList(c, obj.selected_features_))
                ELSE kept)

fit(obj, Xf) ==
    SetAttr(obj, "selected_features_",
            KeepColumns(Xf.columns, Removed(DataFrame_corr(Xf, obj.method), obj.corr_threshold)))

(***************************************************************************)
(* HighCorrRemoval.transform                                               *)
(***************************************************************************)
NoFrame == [columns |-> <<>>, corr |-> <<>>, data |-> <<>>]

NoValue == [columns |-> <<>>, data |-> <<>>]

\* position of a column label in a frame (labels are unique)
ColumnPos(Xf, name) == CHOOSE k \in 1..Len(Xf.columns) : Xf.columns[k] = name

\* X[labels]: the columns named by labels, in the order of labels;
\* a label that is not a column of X is a KeyError
GetColumns(Xf, labels) ==
    IF \E k \in 1..Len(labels) : ~InList(labels[k], Xf.columns)
    THEN [kind |-> "KeyError", value |-> NoValue]
    ELSE [kind |-> "return",
          value |-> [columns |-> labels,
                     data |-> AsList([k \in 1..Len(labels) |->
                                         Xf.data[ColumnPos(Xf, labels[k])]])]]

transform_frame_order(obj, Xf) ==
    IF ~Fitted(obj)
    THEN [kind |-> "AttributeError", value |-> NoValue]
    ELSE GetColumns(Xf, SelectSeq(Xf.columns, LAMBDA c : InList(c, obj.selected_features_)))

\* return X[self.selected_features_]; reading the attribute of an instance
\* that was never fitted raises AttributeError before X is indexed
transform(obj, Xf) ==
    IF ~Fitted(obj)
    THEN [kind |-> "AttributeError", value |-> NoValue]
    ELSE GetColumns(Xf, obj.selected_features_)

(***************************************************************************)
(* The estimator's life: construction, fit, transform                      *)
(***************************************************************************)
NoArgs == [y_true |-> <<>>, y_score |-> <<>>, K |-> 0]

NoRet == [fn |-> "none", kind |-> "none", value |-> <<>>, ranked |-> FALSE]

\* HighCorrRemoval(corr_threshold, method), and the matrix the caller holds
Init ==
    /\ self \in [corr_threshold : Thresholds, method : Methods]
    /\ data \in Frames
    /\ CorrDefined(data, self.method)
    /\ X = NoFrame
    /\ result = [op |-> "init", kind |-> "return", value |-> NoValue, before |-> self]
    /\ args = NoArgs
    /\ ret = NoRet

\* result records the call just made: its outcome and the attributes the
\* instance had when it was called
Fit ==
    \E Xf \in FitViews(data) :
        /\ self' = fit(self, Xf)
        /\ X' = Xf
        /\ result' = [op |-> "fit", kind |-> "return", value |-> NoValue, before |-> self]
        /\ UNCHANGED <<data, args, ret>>

Outcome(op, r, before) ==
    [op |-> op, kind |-> r.kind, value |-> r.value, before |-> before]

Transform ==
    \E Xf \in Views(data) :
        /\ result' = Outcome("transform", transform(self, Xf), self)
        /\ X' = Xf
        /\ UNCHANGED <<self, data, args, ret>>

Next == Fit \/ Transform

Spec == Init /\ [][Next]_vars

(***************************************************************************)
(* Arrays of the ranking metrics                                           *)
(***************************************************************************)
\* np.array(x): its shape and its elements in row-major order.  A score
\* array also carries the result of its argsort().
Array(shape, elems) == [shape |-> shape, data |-> elems]

ndim(a) == Len(a.shape)

\* len(a) of an array of at least one dimension
len(a) == a.shape[1]

Labels == {0, 1, 2}

Scores == {1, 2}

Lists(vals, n) == {AsList(f) : f \in [1..n -> vals]}

\* shapes of the arguments that are not one-dimensional: a scalar, a row
\* and a column
OtherShapes == {<<>>, <<1, 2>>, <<2, 1>>}

Zeros(shape) ==
    IF shape = <<>> THEN <<0>> ELSE AsList([k \in 1..(shape[1] * shape[2]) |-> 0])

LabelArrays ==
    UNION {{Array(<<n>>, l) : l \in Lists(Labels, n)} : n \in 0..MaxLen}
        \cup {Array(sh, Zeros(sh)) : sh \in OtherShapes}

\* a.argsort() returns indices that order a ascending; the default sort is
\* not stable, so equal elements may come in either order
ArgSorts(elems) ==
    {p \in Lists(0..(Len(elems) - 1), Len(elems)) :
        /\ \A i, j \in 1..Len(p) : i # j => p[i] # p[j]
        /\ \A i \in 1..(Len(p) - 1) : elems[p[i] + 1] <= elems[p[i + 1] + 1]}

ScoreArrays ==
    UNION {UNION {{[shape |-> <<n>>, data |-> l, argsort |-> p] : p \in ArgSorts(l)} :
                     l \in Lists(Scores, n)} : n \in 0..MaxLen}
        \cup {[shape |-> sh, data |-> Zeros(sh), argsort |-> <<>>] : sh \in OtherShapes}

\* K is kept in halves, so that a K that is not an integer (1.5) can be passed
HalfKs == (-2)..(2 * MaxLen + 2)

IsInt(K) == K % 2 = 0

IntOf(K) == K \div 2

RECURSIVE Sum(_)
Sum(l) == IF l = <<>> THEN 0 ELSE Head(l) + Sum(Tail(l))

(***************************************************************************)
(* utils/validation.py                                                     *)
(***************************************************************************)
\* the checks, in the order of the source; each failure is a ValueError
check_and_convert_array(y_true, y_score, K) ==
    IF ~(y_true.shape = y_score.shape) THEN [kind |-> "ValueError", failed |-> "shape"]
    ELSE IF ~(ndim(y_true) = 1) THEN [kind |-> "ValueError", failed |-> "ndim"]
    ELSE IF ~(len(y_true) > 0) THEN [kind |-> "ValueError", failed |-> "empty"]
    ELSE IF ~(K > 0) THEN [kind |-> "ValueError", failed |-> "K <= 0"]
    ELSE IF ~(K <= 2 * len(y_true)) THEN [kind |-> "ValueError", failed |-> "K > len"]
    ELSE [kind |-> "return", failed |-> "none"]

\* a[idx]: indexing with a list of indices; an index out of range is an IndexError
Take(elems, idx) ==
    IF \E k \in 1..Len(idx) : idx[k] >= Len(elems)
    THEN [kind |-> "IndexError", value |-> <<>>]
    ELSE [kind |-> "return", value |-> Pick(elems, idx)]

\* l[:K]: a K that is not an integer is a TypeError; a negative K counts from the end
SliceTo(l, K) ==
    IF ~IsInt(K) THEN [kind |-> "TypeError", value |-> <<>>]
    ELSE LET k == IntOf(K)
             stop == IF k >= 0 THEN (IF k <= Len(l) THEN k ELSE Len(l))
                     ELSE (IF Len(l) + k >= 0 THEN Len(l) + k ELSE 0)
         IN  [kind |-> "return", value |-> SubSeq(l, 1, stop)]

rank_target_no_cut(y_true, y_score, K) ==
    Take(y_true.data, Reverse(y_score.argsort))

\* idx_sort = y_score.argsort()[::-1]; return y_true[idx_sort][:K]
rank_target(y_true, y_score, K) ==
    LET picked == Take(y_true.data, Reverse(y_score.argsort))
    IN  IF picked.kind # "return" THEN picked ELSE SliceTo(picked.value, K)

(***************************************************************************)
(* metrics/_ranking.py                                                     *)
(* A metric returns a fraction <<numerator, denominator>>; ranked tells    *)
(* whether rank_target was entered.                                        *)
(***************************************************************************)
Raised(kind, ranked) == [kind |-> kind, value |-> <<>>, ranked |-> ranked]

Returned(num, den) == [kind |-> "return", value |-> <<num, den>>, ranked |-> TRUE]

\* the two lines every metric starts with: the error raised, or y_ranked
Ranked(y_true, y_score, K) ==
    IF check_and_convert_array(y_true, y_score, K).kind # "return"
    THEN Raised(check_and_convert_array(y_true, y_score, K).kind, FALSE)
    ELSE IF rank_target(y_true, y_score, K).kind # "return"
    THEN Raised(rank_target(y_true, y_score, K).kind, TRUE)
    ELSE [kind |-> "return", value |-> rank_target(y_true, y_score, K).value, ranked |-> TRUE]

\* y_ranked.mean()
precision_at_k(y_true, y_score, K) ==
    LET y_ranked == Ranked(y_true, y_score, K)
    IN  IF y_ranked.kind # "return" THEN y_ranked
        ELSE Returned(Sum(y_ranked.value), Len(y_ranked.value))

\* y_ranked.sum() / y_true.sum() if y_true.sum() else 0
recall_at_k(y_true, y_score, K) ==
    LET y_ranked == Ranked(y_true, y_score, K)
    IN  IF y_ranked.kind # "return" THEN y_ranked
        ELSE IF Sum(y_true.data) # 0 THEN Returned(Sum(y_ranked.value), Sum(y_true.data))
        ELSE Returned(0, 1)

RECURSIVE Factorial(_)
Factorial(n) == IF n <= 1 THEN 1 ELSE n * Factorial(n - 1)

\* prediction_list[k] = y_ranked[:k + 1].mean(); (y_ranked * prediction_list).mean(),
\* over the common denominator K * K!
MeanOfPrecisions(r) ==
    Returned(Sum(AsList([k \in 1..Len(r) |->
                    r[k] * Sum(SubSeq(r, 1, k)) * (Factorial(Len(r)) \div k)])),
             Len(r) * Factorial(Len(r)))

average_precision_at_k(y_true, y_score, K) ==
    LET y_ranked == Ranked(y_true, y_score, K)
    IN  IF y_ranked.kind # "return" THEN y_ranked ELSE MeanOfPrecisions(y_ranked.value)

\* 1 / np.log2(i + 2) for i = 0, 1, ..., in millionths
InvLog2 == <<1000000, 630930, 500000, 430677, 386853, 356207>>

RECURSIVE Pow2(_)
Pow2(n) == IF n <= 0 THEN 1 ELSE 2 * Pow2(n - 1)

\* ((2 ** y_ranked - 1) / np.log2(np.arange(K) + 2)).sum(), in millionths
DiscountedGain(r) ==
    Returned(Sum(AsList([k \in 1..Len(r) |-> (Pow2(r[k]) - 1) * InvLog2[k]])), 1000000)

discounted_cumulative_gain_at_k(y_true, y_score, K) ==
    LET y_ranked == Ranked(y_true, y_score, K)
    IN  IF y_ranked.kind # "return" THEN y_ranked ELSE DiscountedGain(y_ranked.value)

np_zeros_like(a) == Array(a.shape, AsList([k \in 1..Len(a.data) |-> 0]))

np_ones_like(a) == Array(a.shape, AsList([k \in 1..Len(a.data) |-> 1]))

\* DSG_K / IDSG_K; the first call that raises ends the function
normalized_discounted_cumulative_gain_at_k(y_true, y_score, K) ==
    LET DSG_K  == discounted_cumulative_gain_at_k(y_true, y_score, K)
        IDSG_K == discounted_cumulative_gain_at_k(np_ones_like(y_true), y_score, K)
    IN  IF DSG_K.kind # "return" THEN DSG_K
        ELSE IF IDSG_K.kind # "return" THEN IDSG_K
        ELSE Returned(DSG_K.value[1], IDSG_K.value[1])

(***************************************************************************)
(* Calls of the metrics on arguments drawn once                            *)
(***************************************************************************)
DefaultInstance == [corr_threshold |-> 90, method |-> "pearson"]

InitMetrics ==
    /\ self = DefaultInstance
    /\ data = NoFrame
    /\ X = NoFrame
    /\ result = [op |-> "init", kind |-> "return", value |-> NoValue, before |-> self]
    /\ args \in [y_true : LabelArrays, y_score : ScoreArrays, K : HalfKs]
    /\ ret = NoRet

Call(fn, r) ==
    /\ ret' = [fn |-> fn, kind |-> r.kind, value |-> r.value, ranked |-> r.ranked]
    /\ UNCHANGED <<self, data, X, result, args>>

PrecisionAtK == Call("precision_at_k", precision_at_k(args.y_true, args.y_score, args.K))

RecallAtK == Call("recall_at_k", recall_at_k(args.y_true, args.y_score, args.K))

AveragePrecisionAtK ==
    Call("average_precision_at_k", average_precision_at_k(args.y_true, args.y_score, args.K))

DiscountedCumulativeGainAtK ==
    Call("discounted_cumulative_gain_at_k",
         discounted_cumulative_gain_at_k(args.y_true, args.y_score, args.K))

NormalizedDiscountedCumulativeGainAtK ==
    Call("normalized_discounted_cumulative_gain_at_k",
         normalized_discounted_cumulative_gain_at_k(args.y_true, args.y_score, args.K))

WithRanked(r) == [kind |-> r.kind, value |-> r.value, ranked |-> TRUE]

\* rank_target called on its own, on one-dimensional arrays
RankTarget ==
    /\ ndim(args.y_true) = 1 /\ ndim(args.y_score) = 1
    /\ Call("rank_target", WithRanked(rank_target(args.y_true, args.y_score, args.K)))

NextMetrics ==
    \/ PrecisionAtK
    \/ RecallAtK
    \/ AveragePrecisionAtK
    \/ DiscountedCumulativeGainAtK
    \/ NormalizedDiscountedCumulativeGainAtK
    \/ RankTarget

SpecMetrics == InitMetrics /\ [][NextMetrics]_vars

(***************************************************************************)
(* Properties of HighCorrRemoval (checked under Spec)                      *)
(***************************************************************************)
AfterFit == result.op = "fit"

NumCols == Len(X.columns)

ColIdx == 0..(NumCols - 1)

\* column idx of the fitted matrix is in selected_features_
Sel(idx) == InList(X.columns[idx + 1], self.selected_features_)

\* |C[i, j]| > corr_threshold, as a claim reads it: strict, false on NaN
Flagged(i, j) ==
    LET c == At(X.corr, i, j)
    IN  ~c.nan /\ (IF c.v < 0 THEN -c.v ELSE c.v) > self.corr_threshold

Undefined(i) == At(X.corr, i, i).nan

\* the pairs (i, j), i < j, of the strict upper triangle in row-major order
ScanOrder(n) ==
    SelectSeq(AsList([k \in 1..(n * n) |-> <<(k - 1) \div n, (k - 1) % n>>]),
              LAMBDA p : p[1] < p[2])

\* keep-the-first-seen: column j is marked unless row i is already marked
RECURSIVE KeepFirstSeen(_, _, _)
KeepFirstSeen(scan, k, marked) ==
    IF k > Len(scan) THEN marked
    ELSE KeepFirstSeen(scan, k + 1,
            IF Flagged(scan[k][1], scan[k][2]) /\ scan[k][1] \notin marked
            THEN marked \cup {scan[k][2]} ELSE marked)

\* keep-the-last-seen: row i is marked unless column j is already marked
RECURSIVE KeepLastSeen(_, _, _)
KeepLastSeen(scan, k, marked) ==
    IF k > Len(scan) THEN marked
    ELSE KeepLastSeen(scan, k + 1,
            IF Flagged(scan[k][1], scan[k][2]) /\ scan[k][2] \notin marked
            THEN marked \cup {scan[k][1]} ELSE marked)

\* the selected columns are those with a defined diagonal that are not marked
SelectedAreUnmarked(marked) ==
    \A d \in ColIdx : Sel(d) <=> (d \notin marked /\ ~Undefined(d))

\* a matrix with one constant column c and one pair i < j of correlation 0.95,
\* all other columns uncorrelated, fitted at threshold 0.9
OnePairOneConstant(i, j, c) ==
    /\ AfterFit
    /\ self.corr_threshold = 90
    /\ i < j /\ c # i /\ c # j
    /\ \A d \in ColIdx : Undefined(d) <=> d = c
    /\ At(X.corr, i, j) = Float(95)
    /\ \A a, b \in ColIdx \ {c} : (a < b /\ <<a, b>> # <<i, j>>) => At(X.corr, a, b) = Float(0)

\* C1 as stated: fit keeps the first-seen column of a correlated pair (column
\* j is marked unless row i is already marked), so with one constant column
\* and one pair at 0.95 the constant and the later column of the pair are
\* removed and every other column is selected.
C1_KeepFirstSeen ==
    AfterFit =>
        /\ SelectedAreUnmarked(KeepFirstSeen(ScanOrder(NumCols), 1, {}))
        /\ \A i, j, c \in ColIdx : OnePairOneConstant(i, j, c) =>
               \A d \in ColIdx : Sel(d) <=> (d # c /\ d # j)

\* C1 amended: fit keeps the last-seen column of a correlated pair (row i is
\* marked unless column j is already marked), so with one constant column
\* and one pair at 0.95 the constant and the earlier column of the pair are
\* removed and every other column is selected, in the original column order.
C1_KeepLastSeen ==
    AfterFit =>
        /\ SelectedAreUnmarked(KeepLastSeen(ScanOrder(NumCols), 1, {}))
        /\ \A i, j, c \in ColIdx : OnePairOneConstant(i, j, c) =>
               \A d \in ColIdx : Sel(d) <=> (d # c /\ d # i)

C1_Witness ==
    /\ AfterFit
    /\ NumCols = 4
    /\ OnePairOneConstant(0, 1, 3)
    /\ self.selected_features_ = <<"feature_1", "feature_2">>

\* C2: after any fit, no column whose diagonal correlation is undefined is in
\* selected_features_, whatever the threshold and the pairwise scan.
C2_UndefinedDiagonalRemoved ==
    AfterFit => \A d \in ColIdx : Undefined(d) => ~Sel(d)

C2_Witness ==
    /\ AfterFit
    /\ \E c, i, j \in ColIdx : Undefined(c) /\ i < j /\ Flagged(i, j) /\ ~Sel(c) /\ Sel(j)

\* C3: after any fit, first or repeated, selected_features_ is what a fresh
\* instance with the same threshold and method holds after one fit of the
\* same matrix, and the parameters are those the instance had before.
C3_RefitReplaces ==
    AfterFit =>
        /\ self.selected_features_ =
              fit([corr_threshold |-> self.corr_threshold, method |-> self.method],
                  X).selected_features_
        /\ self.corr_threshold = result.before.corr_threshold
        /\ self.method = result.before.method

\* a refit that both drops a column the earlier fit selected and selects a
\* column the earlier fit dropped
C3_Witness ==
    /\ AfterFit
    /\ Fitted(result.before)
    /\ \E f \in 1..Len(FeatureNames) :
          /\ InList(FeatureNames[f], result.before.selected_features_)
          /\ InList(FeatureNames[f], X.columns)
          /\ ~InList(FeatureNames[f], self.selected_features_)
    /\ \E f \in 1..Len(FeatureNames) :
          /\ ~InList(FeatureNames[f], result.before.selected_features_)
          /\ InList(FeatureNames[f], self.selected_features_)

\* C4 as stated: transform on an instance that was never fitted returns no
\* matrix, raises a distinct not-fitted error rather than an attribute or
\* lookup error, and leaves the instance unfitted; transform returns a matrix
\* only when fitted.
C4_UnfittedTransformNamedError ==
    result.op = "transform" =>
        /\ ~Fitted(result.before) => (result.kind = "NotFittedError" /\ ~Fitted(self))
        /\ result.kind = "return" => Fitted(result.before)

\* C5: transform on a fitted instance changes no attribute, and what it
\* returns is fixed by selected_features_ and the matrix alone: exactly the
\* selected columns of the matrix, in selected_features_ order.
C5_TransformPureRead ==
    (result.op = "transform" /\ Fitted(result.before)) =>
        /\ self = result.before
        /\ result.kind \in {"return", "KeyError"}
        /\ result.kind = "return" <=>
              \A k \in 1..Len(self.selected_features_) :
                  InList(self.selected_features_[k], X.columns)
        /\ result.kind = "return" =>
              /\ result.value.columns = self.selected_features_
              /\ Len(result.value.data) = Len(self.selected_features_)
              /\ \A k \in 1..Len(self.selected_features_) :
                    \E p \in 1..Len(X.columns) :
                        /\ X.columns[p] = self.selected_features_[k]
                        /\ result.value.data[k] = X.data[p]

\* a transform of a matrix whose column order is not that of the fit
C5_Witness ==
    /\ result.op = "transform"
    /\ result.kind = "return"
    /\ Len(self.selected_features_) >= 2
    /\ X.columns # self.selected_features_
    /\ X.columns[1] = self.selected_features_[Len(self.selected_features_)]

\* C9: in fit the guard "x not in removed" never blocks, and
\* selected_features_ is, in column order, the columns with a defined
\* diagonal and no later column j with |C[i, j]| > corr_threshold (strict).
NoneBlocked(xs, ys) ==
    \A k \in 1..Len(xs) :
        ~InList(xs[k], RemovalLoop(SubSeq(xs, 1, k - 1), SubSeq(ys, 1, k - 1), 1, <<>>))

GuardNeverBlocksOn(sl, grid) == NoneBlocked(BoolIndex(grid[1], sl), BoolIndex(grid[2], sl))

GuardNeverBlocks ==
    GuardNeverBlocksOn(triu_gt(X.corr, self.corr_threshold),
                       meshgrid(arange(NumCols), arange(NumCols)))

ClosedForm ==
    Pick(X.columns,
         SelectSeq(arange(NumCols),
                   LAMBDA i : ~Undefined(i) /\ ~\E j \in ColIdx : i < j /\ Flagged(i, j)))

C9_ClosedForm ==
    AfterFit => (GuardNeverBlocks /\ self.selected_features_ = ClosedForm)

\* a chain i < j < k of two correlated pairs
C9_Witness ==
    /\ AfterFit
    /\ \E i, j, k \in ColIdx :
          i < j /\ j < k /\ Flagged(i, j) /\ Flagged(j, k) /\ ~Sel(i) /\ ~Sel(j) /\ Sel(k)

\* C10: after any fit no two selected columns have |C[i, j]| > corr_threshold.
C10_NoCorrelatedPairSelected ==
    AfterFit => \A i, j \in ColIdx : (i < j /\ Flagged(i, j)) => ~(Sel(i) /\ Sel(j))

C10_Witness ==
    /\ AfterFit
    /\ \E i, j \in ColIdx :
          i < j /\ At(X.corr, i, j) = Float(-95) /\ Flagged(i, j) /\ ~Sel(i) /\ Sel(j)

(***************************************************************************)
(* Properties of the ranking metrics (checked under SpecMetrics)           *)
(***************************************************************************)
MetricNames == {"precision_at_k", "recall_at_k", "average_precision_at_k",
                "discounted_cumulative_gain_at_k",
                "normalized_discounted_cumulative_gain_at_k"}

\* the constraints of the contract: one-dimensional, equal length, non-empty,
\* K an integer with 1 <= K <= length
ValidArgs ==
    /\ Len(args.y_true.shape) = 1 /\ Len(args.y_score.shape) = 1
    /\ args.y_true.shape[1] = args.y_score.shape[1]
    /\ args.y_true.shape[1] > 0
    /\ args.K % 2 = 0
    /\ 1 <= args.K \div 2 /\ args.K \div 2 <= args.y_true.shape[1]

\* C6 as stated: a metric returns a value exactly on valid arguments, and on
\* any other arguments fails with the validation error before any ranking.
C6_ValidatedOrValueError ==
    ret.fn \in MetricNames =>
        /\ ret.kind = "return" <=> ValidArgs
        /\ ~ValidArgs => (ret.kind = "ValueError" /\ ~ret.ranked)

Count(v, l) == Cardinality({k \in 1..Len(l) : l[k] = v})

MultisetSubset(l, m) == \A k \in 1..Len(l) : Count(l[k], l) <= Count(l[k], m)

\* C7 as stated: for every K >= 1 the output of rank_target has length
\* exactly K and is a multiset subset of the labels.
C7_LengthExactlyK ==
    (ret.fn = "rank_target" /\ args.K % 2 = 0 /\ args.K \div 2 >= 1
        /\ args.y_score.shape = args.y_true.shape) =>
        /\ ret.kind = "return"
        /\ Len(ret.value) = args.K \div 2
        /\ MultisetSubset(ret.value, args.y_true.data)

\* C7 amended: for every integer K >= 1 and scores no longer than the labels,
\* the output of rank_target has length min(K, len(scores)), which is exactly
\* K whenever K <= len(scores), and is a multiset subset of the labels.
C7_LengthMinK ==
    (ret.fn = "rank_target" /\ args.K % 2 = 0 /\ args.K \div 2 >= 1
        /\ args.y_score.shape[1] <= args.y_true.shape[1]) =>
        /\ ret.kind = "return"
        /\ Len(ret.value) = (IF args.K \div 2 <= args.y_score.shape[1]
                             THEN args.K \div 2 ELSE args.y_score.shape[1])
        /\ MultisetSubset(ret.value, args.y_true.data)

C7_Witness ==
    /\ ret.fn = "rank_target"
    /\ ret.kind = "return"
    /\ args.K = 2
    /\ args.y_true.data = <<0, 1>>
    /\ args.y_score.data = <<2, 2>>
    /\ Len(ret.value) = 1

NDCG == ret.fn = "normalized_discounted_cumulative_gain_at_k"

InUnitInterval ==
    /\ ret.kind = "return"
    /\ 0 <= ret.value[1]
    /\ ret.value[1] <= ret.value[2]
    /\ 0 < ret.value[2]

\* C8 as stated: on any valid arguments nDCG returns a value in [0, 1]: the
\* DCG is at most the DCG of all-ones labels, which is positive.
C8_UnitIntervalAnyLabels == (NDCG /\ ValidArgs) => InUnitInterval

\* C8 amended: on any valid arguments whose labels are all 0 or 1, nDCG
\* returns a value in [0, 1]: the DCG is at most the DCG of all-ones labels,
\* which is positive.
C8_UnitIntervalBinaryLabels ==
    (NDCG /\ ValidArgs /\ \A k \in 1..Len(args.y_true.data) : args.y_true.data[k] \in {0, 1})
        => InUnitInterval

C8_Witness ==
    /\ NDCG
    /\ ret.kind = "return"
    /\ 0 < ret.value[1]
    /\ ret.value[1] < ret.value[2]

====
